---------------------------- MODULE Spec2Model ----------------------------
(***************************************************************************)
(* The function registry of the shell (src/src/function.cpp): the table of *)
(* loaded functions, the tombstones that stop re-autoloading, the          *)
(* "currently autoloading" flag, and the operations on them.  The autoload *)
(* coordinator (autoload_t), the file sourcer, the event bus, the reader   *)
(* and the keyword table are collaborators whose code is not part of       *)
(* function.cpp; they are modelled from the specification's description.   *)
(***************************************************************************)
EXTENDS Integers, Sequences, FiniteSets, Bags, TLC

(***************************************************************************)
(* Bounds and input sets.                                                  *)
(***************************************************************************)
\* Largest modification time a file on the search path takes.
MaxMtime == 2

\* Function names used as inputs.  "if" is a reserved keyword.
Names == {"a", "b", "if"}

\* The names whose functions are copied and described.  a.fish is rewritten,
\* b.fish is deleted and created again, if.fish stays as it is.
Plain == {"a", "b"}
Rewritten == {"a"}
Deleted == {"b"}

\* The one directory that holds *.fish files; "d2" is a directory that holds none.
FunctionDir == "d1"

\* Values the variable fish_function_path takes, and the search paths of the
\* snapshots handed to function_exists_no_autoload.
PathChoices == {<<"d1">>, <<"d2", "d1">>}
SnapChoices == {<< >>, <<"d1">>}

\* Variables a function may list for inheritance, and the values they take
\* (0: the variable is missing).
InheritNames == {"v"}

\* NULL: a null pointer.  A pointer to a value x is the sequence <<x>>, and a
\* file name is a sequence of path components, so NULL is the empty sequence.
NULL == << >>

\* The path of the file defining `name` in the function directory.
FilePath(name) == <<FunctionDir, name>>

\* The characters of a function name, and of the suffix of a function file.
NameChars(name) ==
    CASE name = "a" -> <<"a">>
      [] name = "b" -> <<"b">>
      [] name = "if" -> <<"i", "f">>
      [] name = "_k" -> <<"_", "k">>
      [] name = "" -> << >>
FishSuffix == <<".", "f", "i", "s", "h">>

\* What wreaddir lists when name.fish exists in the function directory for the
\* names with a file in fs; the directory "d2" is empty.
DirListing(fs) ==
    [d \in {"d1", "d2"} |->
        IF d = FunctionDir
        THEN {NameChars(n) \o FishSuffix : n \in {m \in DOMAIN fs : fs[m] # 0}}
        ELSE {}]

\* The threads: the main thread and one other.
Threads == {"main", "other"}

\* The mutex when no thread holds it, and a thread that is in no operation.
Unlocked == [owner |-> "none", count |-> 0]
Idle ==
    [pc |-> "idle", op |-> "", name |-> "", arg |-> "", seen |-> NULL,
     res |-> FALSE, depth |-> 0]

VARIABLES
    loaded_functions,     \* function_map_t: name -> function_info_t
    function_tombstones,  \* names that must not be autoloaded (anymore)
    is_autoload,          \* the kludgy flag load() sets for function_add()
    event_handlers,       \* event bus: function names with a registered handler
    autoload_entries,     \* coordinator: name -> [mtime, is_loaded]
    last_path,            \* coordinator: the search path seen by its last load
    files,                \* file system: name -> mtime of name.fish (0: no file)
    fish_function_path,   \* environment: the search path variable
    env_vars,             \* environment: values of the inheritable variables
    loadStack,            \* the load() calls in progress, outermost first
    ret,                  \* the last operation's call and returned value
    dirs,                 \* file system: directory -> the entries wreaddir lists
    local_vars,           \* environment: the local user variables set for a call
    functions_lock,       \* the recursive mutex: [owner, count]
    threads               \* each thread's operation in progress and position

vars == <<loaded_functions, function_tombstones, is_autoload, event_handlers,
          autoload_entries, last_path, files, fish_function_path, env_vars,
          loadStack, ret, dirs, local_vars, functions_lock, threads>>

(***************************************************************************)
(* Helpers for maps (std::unordered_map) and the registry state.           *)
(***************************************************************************)
\* unordered_map::erase(key).
MapErase(f, k) == [x \in DOMAIN f \ {k} |-> f[x]]

\* unordered_map::insert(pair): does nothing when the key is present.
MapInsert(f, k, v) ==
    IF k \in DOMAIN f THEN f
    ELSE [x \in DOMAIN f \cup {k} |-> IF x = k THEN v ELSE f[x]]

\* The registry and coordinator state an operation works on.
Cur ==
    [loaded |-> loaded_functions, tombstones |-> function_tombstones,
     handlers |-> event_handlers, entries |-> autoload_entries,
     last_path |-> last_path]

\* The value an operation leaves in `ret`.
Ret(op, name, val, aux) == [op |-> op, name |-> name, val |-> val, aux |-> aux]

\* `ret` holds this call and value (compared field by field: val and aux are
\* of one type for each op).
RetIs(op, name, val, aux) ==
    ret.op = op /\ ret.name = name /\ ret.val = val /\ ret.aux = aux

\* The process has not crashed.
Running == ret.op # "crash"

(***************************************************************************)
(* Collaborators.                                                          *)
(***************************************************************************)
\* parser_keywords_is_reserved(cmd).
parser_keywords_is_reserved(cmd) == cmd \in {"if", "end", "case", "else"}

\* event_remove(ev) with ev.function_name = name and type EVENT_ANY.
event_remove(st, name) == [st EXCEPT !.handlers = @ \ {name}]

\* event_add_handler(ev) for an event of function `name`.
event_add_handler(st, name) == [st EXCEPT !.handlers = @ \cup {name}]

\* env_get(name): 0 stands for a missing variable.
env_get(x) == env_vars[x]

\* reader_current_filename(): the file being sourced, or NULL.
reader_current_filename ==
    IF loadStack = <<>> THEN NULL ELSE FilePath(loadStack[Len(loadStack)].name)

(***************************************************************************)
(* function_info_t.                                                        *)
(***************************************************************************)
\* snapshot_vars(vars): the listed variables that are defined, with their values.
snapshot_vars(vs) ==
    LET defined == {vs[i] : i \in {j \in 1..Len(vs) : env_get(vs[j]) # 0}}
    IN [x \in defined |-> env_get(x)]

\* Mutant: the record is created without looking at the autoload argument.
function_info_t_not_autoload(data, filename, def_offset, autoload) ==
    [definition |-> data.definition,
     description |-> data.description,
     definition_file |-> filename,
     definition_offset |-> def_offset,
     named_arguments |-> data.named_arguments,
     inherit_vars |-> snapshot_vars(data.inherit_vars),
     is_autoload |-> FALSE,
     shadow_scope |-> data.shadow_scope]

\* function_info_t(const function_data_t &, filename, def_offset, autoload).
function_info_t(data, filename, def_offset, autoload) ==
    [definition |-> data.definition,
     description |-> data.description,
     definition_file |-> filename,
     definition_offset |-> def_offset,
     named_arguments |-> data.named_arguments,
     inherit_vars |-> snapshot_vars(data.inherit_vars),
     is_autoload |-> autoload,
     shadow_scope |-> data.shadow_scope]

\* Mutant: the copy keeps the original's is_autoload flag.
function_info_copy_keep_autoload(data, filename, def_offset, autoload) ==
    [definition |-> data.definition,
     description |-> data.description,
     definition_file |-> filename,
     definition_offset |-> def_offset,
     named_arguments |-> data.named_arguments,
     inherit_vars |-> data.inherit_vars,
     is_autoload |-> data.is_autoload,
     shadow_scope |-> data.shadow_scope]

\* function_info_t(const function_info_t &, filename, def_offset, autoload).
function_info_copy(data, filename, def_offset, autoload) ==
    [definition |-> data.definition,
     description |-> data.description,
     definition_file |-> filename,
     definition_offset |-> def_offset,
     named_arguments |-> data.named_arguments,
     inherit_vars |-> data.inherit_vars,
     is_autoload |-> autoload,
     shadow_scope |-> data.shadow_scope]

(***************************************************************************)
(* Removal (function.cpp) and the coordinator's unload.                    *)
(***************************************************************************)
\* Mutant: the tombstone is entered without looking at the record's flag.
function_remove_always_tombstone(st, name, tombstone) ==
    IF name \notin DOMAIN st.loaded
    THEN [st |-> st, res |-> FALSE]
    ELSE LET marked ==
                 IF tombstone
                 THEN [st EXCEPT !.tombstones = @ \cup {name}]
                 ELSE st
             erased == [marked EXCEPT !.loaded = MapErase(@, name)]
         IN [st |-> event_remove(erased, name), res |-> TRUE]

\* Mutant: the removal leaves the event handlers of the name in place.
function_remove_keep_handlers(st, name, tombstone) ==
    IF name \notin DOMAIN st.loaded
    THEN [st |-> st, res |-> FALSE]
    ELSE LET marked ==
                 IF st.loaded[name].is_autoload /\ tombstone
                 THEN [st EXCEPT !.tombstones = @ \cup {name}]
                 ELSE st
         IN [st |-> [marked EXCEPT !.loaded = MapErase(@, name)], res |-> TRUE]

\* function_remove_ignore_autoload(name, tombstone): [st, res].
function_remove_ignore_autoload(st, name, tombstone) ==
    IF name \notin DOMAIN st.loaded
    THEN [st |-> st, res |-> FALSE]
    ELSE LET marked ==
                 IF st.loaded[name].is_autoload /\ tombstone
                 THEN [st EXCEPT !.tombstones = @ \cup {name}]
                 ELSE st
             erased == [marked EXCEPT !.loaded = MapErase(@, name)]
         IN [st |-> event_remove(erased, name), res |-> TRUE]

\* Mutant: the callback leaves the tombstone argument at its default, true.
autoloaded_function_removed_tombstoning(st, cmd) ==
    function_remove_ignore_autoload(st, cmd, TRUE).st

\* autoloaded_function_removed(cmd): the coordinator's removed-callback.
autoloaded_function_removed(st, cmd) ==
    function_remove_ignore_autoload(st, cmd, FALSE).st

\* The coordinator drops its entry of `name`; a loaded entry is reported through
\* the removed-callback.
autoload_evict_node(st, name) ==
    IF name \notin DOMAIN st.entries THEN st
    ELSE LET was_loaded == st.entries[name].is_loaded
             without == [st EXCEPT !.entries = MapErase(@, name)]
         IN IF was_loaded THEN autoloaded_function_removed(without, name)
            ELSE without

\* autoload_t::unload(cmd).
autoload_unload(st, name) == autoload_evict_node(st, name)

\* function_remove(name).
function_remove(st, name) ==
    LET r == function_remove_ignore_autoload(st, name, TRUE)
    IN IF r.res THEN autoload_unload(r.st, name) ELSE r.st

(***************************************************************************)
(* function_add and function_copy.                                         *)
(***************************************************************************)
\* Mutant: function_add drops the old record without entering a tombstone.
function_add_without_tombstone(st, data, definition_line_offset, filename, autoload) ==
    LET r == function_remove_ignore_autoload(st, data.name, FALSE)
        removed == IF r.res THEN autoload_unload(r.st, data.name) ELSE r.st
        info == function_info_t(data, filename, definition_line_offset, autoload)
        stored == [removed EXCEPT !.loaded = MapInsert(@, data.name, info)]
    IN IF data.events THEN event_add_handler(stored, data.name) ELSE stored

\* function_add(data, parser, definition_line_offset), with the values it reads
\* from reader_current_filename() and from the flag is_autoload.
function_add(st, data, definition_line_offset, filename, autoload) ==
    LET removed == function_remove(st, data.name)
        info == function_info_t(data, filename, definition_line_offset, autoload)
        stored == [removed EXCEPT !.loaded = MapInsert(@, data.name, info)]
    IN IF data.events THEN event_add_handler(stored, data.name) ELSE stored

\* Mutant: the copy keeps the original's line offset.
function_copy_keep_offset(st, name, new_name) ==
    IF name \in DOMAIN st.loaded
    THEN [st |-> [st EXCEPT !.loaded =
                      MapInsert(@, new_name,
                                function_info_copy(st.loaded[name], NULL,
                                    st.loaded[name].definition_offset, FALSE))],
          res |-> TRUE]
    ELSE [st |-> st, res |-> FALSE]

\* function_copy(name, new_name): [st, res].
function_copy(st, name, new_name) ==
    IF name \in DOMAIN st.loaded
    THEN [st |-> [st EXCEPT !.loaded =
                      MapInsert(@, new_name,
                                function_info_copy(st.loaded[name], NULL, 0, FALSE))],
          res |-> TRUE]
    ELSE [st |-> st, res |-> FALSE]

(***************************************************************************)
(* The autoload coordinator (autoload_t), from its description.            *)
(***************************************************************************)
\* The names the coordinator is loading: one per load() in progress.
is_loading_set == {loadStack[i].name : i \in 1..Len(loadStack)}

\* The mtime of name.fish in the first directory of `path` holding it, 0 if none.
autoload_locate(name, path) ==
    IF \E i \in 1..Len(path) : path[i] = FunctionDir THEN files[name] ELSE 0

\* The search path changed: every entry is evicted.
RECURSIVE autoload_evict_all(_, _)
autoload_evict_all(st, pending) ==
    IF pending = {} THEN st
    ELSE LET n == CHOOSE x \in pending : TRUE
         IN autoload_evict_all(autoload_evict_node(st, n), pending \ {n})

\* A load that sources nothing.
NoSource(st) == [st |-> st, source |-> FALSE, mtime |-> 0, stale |-> FALSE]

\* autoload_t::load(cmd, reload = true) up to the point where the file, if any,
\* is handed to the sourcer: [st, source, mtime, stale].
autoload_load(st, name) ==
    LET path == fish_function_path
        st1 == IF path # st.last_path
               THEN [autoload_evict_all(st, DOMAIN st.entries)
                         EXCEPT !.last_path = path]
               ELSE st
        found == autoload_locate(name, path)
        was_loaded == name \in DOMAIN st1.entries /\ st1.entries[name].is_loaded
        current == was_loaded /\ st1.entries[name].mtime = found
        dropped == IF was_loaded THEN autoloaded_function_removed(st1, name) ELSE st1
        entry == [mtime |-> found, is_loaded |-> TRUE]
    IN IF name \in is_loading_set THEN NoSource(st1)
       ELSE IF found = 0
            THEN NoSource([dropped EXCEPT !.entries = MapErase(@, name)])
       ELSE IF current THEN NoSource(st1)
       ELSE [st |-> [dropped EXCEPT !.entries =
                         [x \in DOMAIN @ \cup {name} |->
                              IF x = name THEN entry ELSE @[x]]],
             source |-> TRUE, mtime |-> found, stale |-> was_loaded]

\* autoload_t::can_load(cmd, vars): does a directory of the snapshot's search path
\* hold cmd.fish?  Reads the file system only.
autoload_can_load(name, snap_path) == autoload_locate(name, snap_path) # 0

(***************************************************************************)
(* load (function.cpp), up to the call of the sourcer.                     *)
(***************************************************************************)
\* Mutant: load does not look for a record that is not autoloaded.
load_over_explicit(st, name) ==
    IF name \in st.tombstones THEN NoSource(st) ELSE autoload_load(st, name)

\* Mutant: load does not look at the tombstones.
load_ignoring_tombstones(st, name) ==
    IF name \in DOMAIN st.loaded /\ ~st.loaded[name].is_autoload
    THEN NoSource(st)
    ELSE autoload_load(st, name)

\* load(name): the early returns and the call of function_autoloader.load.
load(st, name) ==
    IF name \in st.tombstones THEN NoSource(st)
    ELSE IF name \in DOMAIN st.loaded /\ ~st.loaded[name].is_autoload
         THEN NoSource(st)
    ELSE autoload_load(st, name)

\* Mutant: load clears the flag when the coordinator returns.
load_restore_clear(frame) == FALSE

\* load(name), line 74: the flag is put back when the coordinator returns.
load_restore(frame) == frame.was_autoload

(***************************************************************************)
(* Inputs: definition requests and the contents of the files.              *)
(***************************************************************************)
\* The definition requests (function_data_t) of explicit definitions, and the
\* name and request of each explicit definition made.
AddChoices == {<<"a", "plain">>, <<"a", "full">>, <<"b", "plain">>, <<"if", "plain">>}

Data(name, kind) ==
    IF kind = "plain"
    THEN [name |-> name, definition |-> <<"cmd", 1>>, description |-> "",
          named_arguments |-> <<>>, inherit_vars |-> <<>>,
          shadow_scope |-> TRUE, events |-> FALSE]
    ELSE [name |-> name, definition |-> <<"cmd", 2>>, description |-> "d",
          named_arguments |-> <<"x">>, inherit_vars |-> <<"v">>,
          shadow_scope |-> FALSE, events |-> TRUE]

\* The line offset handed to function_add with each request.
DataOffset(kind) == IF kind = "plain" THEN 0 ELSE 3

\* The definition request made by the file f.fish, of modification time mtime,
\* when it defines `name`: the body is the file's contents at that time. The
\* function a.fish defines declares an event handler.
FileData(f, mtime, name) ==
    [name |-> name, definition |-> <<f, mtime>>, description |-> "",
     named_arguments |-> <<>>, inherit_vars |-> <<>>,
     shadow_scope |-> TRUE, events |-> (f = "a")]

\* The commands the sourcer runs for the file f.fish of modification time mtime.
\* Every file defines the function it is named after; b.fish also looks up the
\* function a and then defines a itself.
Script(f, mtime) ==
    <<[op |-> "add", name |-> f]>> \o
    (IF f = "b"
     THEN <<[op |-> "exists", name |-> "a"], [op |-> "add", name |-> "a"]>>
     ELSE <<>>)

(***************************************************************************)
(* Initial state.                                                          *)
(***************************************************************************)
Init ==
    /\ loaded_functions = << >>
    /\ function_tombstones = {}
    /\ is_autoload = FALSE
    /\ event_handlers = {}
    /\ autoload_entries = << >>
    /\ last_path = << >>
    /\ files = [n \in Names |-> 1]
    /\ fish_function_path = <<"d1">>
    /\ env_vars = [x \in InheritNames |-> 1]
    /\ loadStack = << >>
    /\ ret = Ret("init", "", FALSE, "")
    /\ dirs = DirListing(files)
    /\ local_vars = << >>
    /\ functions_lock = Unlocked
    /\ threads = [t \in Threads |-> Idle]

\* The registry and coordinator variables take the values of st.
Put(st) ==
    /\ loaded_functions' = st.loaded
    /\ function_tombstones' = st.tombstones
    /\ event_handlers' = st.handlers
    /\ autoload_entries' = st.entries
    /\ last_path' = st.last_path

Environment == <<files, fish_function_path, env_vars, dirs>>

\* The variables of the calls that set up a function's environment and of the
\* threads calling the registry concurrently.
Aside == <<local_vars, functions_lock, threads>>
Registry == <<loaded_functions, function_tombstones, event_handlers>>
Coordinator == <<autoload_entries, last_path>>

\* The table holds an autoloaded record of `name` (which a function_add of
\* `name` replaces): the value noted for an add.
OverAutoloaded(name) ==
    name \in DOMAIN loaded_functions /\ loaded_functions[name].is_autoload

\* The main thread is at top level: no file is being sourced.
TopLevel == Running /\ loadStack = << >>

(***************************************************************************)
(* Operations that call load: function_exists, function_load,              *)
(* function_set_desc.                                                      *)
(***************************************************************************)
\* What the caller of load does after load has returned: [st, ret].
\* function_exists reports table membership, function_set_desc replaces the
\* description of an existing record.  `stale` tells that the load dropped a
\* stale record and sourced the file again; function_exists's `aux` notes it.
AfterLoad(op, name, arg, stale, st) ==
    IF op = "exists"
    THEN [st |-> st,
          ret |-> Ret("exists", name, name \in DOMAIN st.loaded,
                      IF stale THEN "reloaded" ELSE "")]
    ELSE IF op = "set_desc"
    THEN [st |-> IF name \in DOMAIN st.loaded
                 THEN [st EXCEPT !.loaded[name].description = arg]
                 ELSE st,
          ret |-> Ret("set_desc", name, FALSE, "")]
    ELSE [st |-> st, ret |-> Ret("load", "", FALSE, "")]

\* A call of load(name) made by operation op, with `below` the loads already in
\* progress.  Either load returns at once and op finishes, or the coordinator
\* hands name.fish to the sourcer with the flag set, and op finishes when the
\* sourcer returns (SourceReturn).
CallLoad(op, name, arg, below) ==
    LET r == load(Cur, name)
    IN IF r.source
       THEN /\ Put(r.st)
            /\ is_autoload' = TRUE
            /\ loadStack' = Append(below,
                   [name |-> name, was_autoload |-> is_autoload, op |-> op,
                    arg |-> arg, mtime |-> r.mtime, stale |-> r.stale,
                    script |-> Script(name, r.mtime)])
            /\ ret' = Ret("source", name, r.mtime, r.stale)
       ELSE LET done == AfterLoad(op, name, arg, FALSE, r.st)
            IN /\ Put(done.st)
               /\ is_autoload' = is_autoload
               /\ loadStack' = below
               /\ ret' = done.ret

\* Mutant: function_exists does not look at the reserved keywords.
function_exists_unchecked(cmd, below) == CallLoad("exists", cmd, "", below)

\* function_exists(cmd).
function_exists(cmd, below) ==
    IF parser_keywords_is_reserved(cmd)
    THEN /\ ret' = Ret("exists", cmd, FALSE, "")
         /\ loadStack' = below
         /\ UNCHANGED <<Registry, Coordinator, is_autoload>>
    ELSE CallLoad("exists", cmd, "", below)

\* function_load(cmd).
function_load(cmd, below) ==
    IF parser_keywords_is_reserved(cmd)
    THEN /\ ret' = Ret("load", "", FALSE, "")
         /\ loadStack' = below
         /\ UNCHANGED <<Registry, Coordinator, is_autoload>>
    ELSE CallLoad("load", cmd, "", below)

\* function_set_desc(name, desc).
function_set_desc(name, desc, below) == CallLoad("set_desc", name, desc, below)

FunctionExists ==
    /\ TopLevel
    /\ \E n \in Names : function_exists(n, << >>)
    /\ UNCHANGED <<Environment, Aside>>

FunctionLoad ==
    /\ TopLevel
    /\ \E n \in Names : function_load(n, << >>)
    /\ UNCHANGED <<Environment, Aside>>

FunctionSetDesc ==
    /\ TopLevel
    /\ \E n \in Plain : function_set_desc(n, "d", << >>)
    /\ UNCHANGED <<Environment, Aside>>

(***************************************************************************)
(* function_add, function_remove, function_copy at top level.              *)
(***************************************************************************)
FunctionAdd ==
    /\ TopLevel
    /\ \E c \in AddChoices :
           /\ Put(function_add(Cur, Data(c[1], c[2]), DataOffset(c[2]),
                               reader_current_filename, is_autoload))
           /\ ret' = Ret("add", c[1], OverAutoloaded(c[1]), c[2])
    /\ UNCHANGED <<is_autoload, loadStack, Environment, Aside>>

\* `aux` notes the name the record was copied to when the preceding operation
\* copied this record to another name that had no record.
FunctionRemove ==
    /\ TopLevel
    /\ \E n \in Names :
           /\ Put(function_remove(Cur, n))
           /\ ret' = Ret("remove", n, n \in DOMAIN loaded_functions,
                         IF /\ ret.op = "copy" /\ ret.name = n /\ ret.val
                            /\ ret.aux.fresh /\ ret.aux.new # n
                         THEN ret.aux.new ELSE "")
    /\ UNCHANGED <<is_autoload, loadStack, Environment, Aside>>

\* `aux` notes the target and whether the target had no record at the call.
FunctionCopy ==
    /\ TopLevel
    /\ \E n \in Plain, m \in Plain :
           LET r == function_copy(Cur, n, m)
           IN /\ Put(r.st)
              /\ ret' = Ret("copy", n, r.res,
                            [new |-> m, fresh |-> m \notin DOMAIN loaded_functions])
    /\ UNCHANGED <<is_autoload, loadStack, Environment, Aside>>

(***************************************************************************)
(* Accessors.                                                              *)
(***************************************************************************)
\* function_get(name): a pointer to the record, or NULL.
function_get(st, name) ==
    IF name \in DOMAIN st.loaded THEN <<st.loaded[name]>> ELSE NULL

\* function_get_definition(name, out): [res, out]; out stays NULL when unset.
function_get_definition(st, name) ==
    LET func == function_get(st, name)
    IN IF func # NULL THEN [res |-> TRUE, out |-> func[1].definition]
       ELSE [res |-> FALSE, out |-> NULL]

\* function_get_named_arguments(name).
function_get_named_arguments(st, name) ==
    LET func == function_get(st, name)
    IN IF func # NULL THEN func[1].named_arguments ELSE << >>

\* function_get_inherit_vars(name).
function_get_inherit_vars(st, name) ==
    LET func == function_get(st, name)
    IN IF func # NULL THEN func[1].inherit_vars ELSE << >>

\* function_get_shadow_scope(name).
function_get_shadow_scope(st, name) ==
    LET func == function_get(st, name)
    IN IF func # NULL THEN func[1].shadow_scope ELSE FALSE

\* function_get_desc(name, out): [res, out]; the translation _() is not modelled.
function_get_desc(st, name) ==
    LET func == function_get(st, name)
    IN IF func # NULL /\ func[1].description # ""
       THEN [res |-> TRUE, out |-> func[1].description]
       ELSE [res |-> FALSE, out |-> NULL]

\* function_get_definition_file(name).
function_get_definition_file(st, name) ==
    LET func == function_get(st, name)
    IN IF func # NULL THEN func[1].definition_file ELSE NULL

\* function_get_definition_offset(name).
function_get_definition_offset(st, name) ==
    LET func == function_get(st, name)
    IN IF func # NULL THEN func[1].definition_offset ELSE -1

\* function_is_autoloaded(name): the outcomes of the call, <<b>> for a return of
\* b and << >> for a crash.  func->is_autoload is read without a null check:
\* with no record the read goes through a null pointer, which is undefined
\* behaviour (a fault, or whatever value the read yields).
function_is_autoloaded(st, name) ==
    LET func == function_get(st, name)
    IN IF func # NULL THEN {<<func[1].is_autoload>>}
       ELSE {<<TRUE>>, <<FALSE>>, << >>}

\* What every accessor with a defined result returns for every name.
Accessors(st) ==
    [n \in Names |->
        [definition |-> function_get_definition(st, n),
         named_arguments |-> function_get_named_arguments(st, n),
         inherit_vars |-> function_get_inherit_vars(st, n),
         shadow_scope |-> function_get_shadow_scope(st, n),
         desc |-> function_get_desc(st, n),
         definition_file |-> function_get_definition_file(st, n),
         definition_offset |-> function_get_definition_offset(st, n)]]

FunctionIsAutoloaded ==
    /\ TopLevel
    /\ \E n \in Names :
           \E outcome \in function_is_autoloaded(Cur, n) :
               ret' = IF outcome # << >>
                      THEN Ret("is_autoloaded", n, outcome[1], "")
                      ELSE Ret("crash", n, FALSE, "is_autoloaded")
    /\ UNCHANGED <<Registry, Coordinator, is_autoload, loadStack, Environment, Aside>>

\* Mutant: the function calls load, as function_exists does.
function_exists_no_autoload_loading(st, cmd, snap_path) ==
    IF parser_keywords_is_reserved(cmd) THEN [st |-> st, res |-> FALSE]
    ELSE LET r == load(st, cmd)
         IN [st |-> r.st,
             res |-> cmd \in DOMAIN r.st.loaded \/ autoload_can_load(cmd, snap_path)]

\* function_exists_no_autoload(cmd, vars): [st, res].
function_exists_no_autoload(st, cmd, snap_path) ==
    IF parser_keywords_is_reserved(cmd) THEN [st |-> st, res |-> FALSE]
    ELSE [st |-> st,
          res |-> cmd \in DOMAIN st.loaded \/ autoload_can_load(cmd, snap_path)]

FunctionExistsNoAutoload ==
    /\ TopLevel
    /\ \E n \in Names, snap \in SnapChoices :
           LET r == function_exists_no_autoload(Cur, n, snap)
           IN /\ Put(r.st)
              /\ ret' = Ret("exists_no_autoload", n, r.res, snap)
    /\ UNCHANGED <<is_autoload, loadStack, Environment, Aside>>

(***************************************************************************)
(* The sourcer: the commands of the file being sourced, and its return.    *)
(***************************************************************************)
Top == loadStack[Len(loadStack)]

\* The loads in progress once the next command of the file is taken.
Advanced == [loadStack EXCEPT ![Len(loadStack)].script = Tail(@)]

\* The file defines a function: function_add runs inside the load.
SourceAdd ==
    /\ Running /\ loadStack # << >> /\ Top.script # << >>
    /\ Head(Top.script).op = "add"
    /\ LET n == Head(Top.script).name
       IN /\ Put(function_add(Cur, FileData(Top.name, Top.mtime, n), 0,
                              reader_current_filename, is_autoload))
          /\ ret' = Ret("add", n, OverAutoloaded(n), "file")
    /\ loadStack' = Advanced
    /\ UNCHANGED <<is_autoload, Environment, Aside>>

\* The file looks a function up: function_exists runs inside the load.
SourceExists ==
    /\ Running /\ loadStack # << >> /\ Top.script # << >>
    /\ Head(Top.script).op = "exists"
    /\ function_exists(Head(Top.script).name, Advanced)
    /\ UNCHANGED <<Environment, Aside>>

\* The sourcer returns: load puts the flag back and its caller finishes.
SourceReturn ==
    /\ Running /\ loadStack # << >> /\ Top.script = << >>
    /\ is_autoload' = load_restore(Top)
    /\ loadStack' = SubSeq(loadStack, 1, Len(loadStack) - 1)
    /\ LET done == AfterLoad(Top.op, Top.name, Top.arg, Top.stale, Cur)
       IN Put(done.st) /\ ret' = done.ret
    /\ UNCHANGED <<Environment, Aside>>

(***************************************************************************)
(* The environment: files and variables change between operations.         *)
(***************************************************************************)
\* name.fish is rewritten: its mtime moves on.
TouchFile ==
    /\ TopLevel
    /\ \E n \in Rewritten :
           /\ files[n] < MaxMtime
           /\ files' = [files EXCEPT ![n] = @ + 1]
    /\ UNCHANGED <<Registry, Coordinator, is_autoload, loadStack, ret, dirs, Aside,
                   fish_function_path, env_vars>>

\* name.fish is deleted, or created again as it was.
DeleteFile ==
    /\ TopLevel
    /\ \E n \in Deleted :
           files' = [files EXCEPT ![n] = IF @ = 0 THEN 1 ELSE 0]
    /\ dirs' = DirListing(files')
    /\ UNCHANGED <<Registry, Coordinator, is_autoload, loadStack, ret, Aside,
                   fish_function_path, env_vars>>

\* fish_function_path is set.
SetPath ==
    /\ TopLevel
    /\ \E p \in PathChoices :
           /\ p # fish_function_path
           /\ fish_function_path' = p
    /\ UNCHANGED <<Registry, Coordinator, is_autoload, loadStack, ret, dirs, Aside,
                   files, env_vars>>

Next ==
    \/ FunctionAdd
    \/ FunctionRemove
    \/ FunctionCopy
    \/ FunctionExists
    \/ FunctionLoad
    \/ FunctionSetDesc
    \/ FunctionIsAutoloaded
    \/ FunctionExistsNoAutoload
    \/ SourceAdd
    \/ SourceExists
    \/ SourceReturn
    \/ TouchFile
    \/ DeleteFile
    \/ SetPath

Spec == Init /\ [][Next]_vars

(***************************************************************************)
(* Properties.                                                             *)
(***************************************************************************)
\* What remove(name) of an autoloaded record leaves: a tombstone and no record.
Suppressed(n) == n \in function_tombstones /\ n \notin DOMAIN loaded_functions

\* This step hands n.fish to the sourcer.
SourcingStarts(n) ==
    /\ Len(loadStack') = Len(loadStack) + 1
    /\ loadStack'[Len(loadStack')].name = n

\* This step is an add of n (explicit or made by a sourced file).
AddOf(n) == ret'.op = "add" /\ ret'.name = n

\* This step is a copy to n.
CopyTo(n) == ret'.op = "copy" /\ ret'.aux.new = n

C2_TombstonedNeverAutoloaded ==
    [][\A n \in Names :
          Suppressed(n) =>
              ~(n \in DOMAIN loaded_functions' /\ loaded_functions'[n].is_autoload)]_vars

RetBecomes(op, name, val, aux) ==
    ret'.op = op /\ ret'.name = name /\ ret'.val = val /\ ret'.aux = aux

\* This step leaves another call or value in `ret`.
RetChanged ==
    ~(ret'.op = ret.op /\ ret'.name = ret.name /\ ret'.val = ret.val
      /\ ret'.aux = ret.aux)

\* The file of n in the search path differs from the one the coordinator
\* sourced for the autoloaded record of n, and the search path is as it was.
StaleAutoloaded(n) ==
    /\ n \in DOMAIN loaded_functions
    /\ loaded_functions[n].is_autoload
    /\ loaded_functions[n].definition_file = FilePath(n)
    /\ n \in DOMAIN autoload_entries
    /\ last_path = fish_function_path
    /\ autoload_locate(n, fish_function_path) \notin {0, autoload_entries[n].mtime}

\* C4: when name was autoloaded from name.fish and the file has changed since,
\* the next exists(name) drops the stale record through the removed-callback
\* before the file is sourced again, enters no tombstone, returns true, and
\* get_definition(name) then returns the new contents.
C4_StaleFileIsReloaded ==
    [][/\ \A n \in Names :
              (/\ loadStack = << >>
               /\ StaleAutoloaded(n)
               /\ RetChanged
               /\ ret'.name = n
               /\ \/ ret'.op = "exists"
                  \/ ret'.op = "source" /\ loadStack'[1].op = "exists")
              => /\ RetBecomes("source", n, files[n], TRUE)
                 /\ n \notin DOMAIN loaded_functions'
                 /\ function_tombstones' = function_tombstones
       /\ (/\ Len(loadStack) = 1 /\ loadStack' = << >>
           /\ loadStack[1].op = "exists" /\ loadStack[1].stale)
          => LET n == loadStack[1].name
             IN /\ RetBecomes("exists", n, TRUE, "reloaded")
                /\ Accessors(Cur)'[n].definition =
                       [res |-> TRUE, out |-> <<n, loadStack[1].mtime>>]
                /\ n \notin function_tombstones']_vars

\* exists("a") has sourced the rewritten a.fish again and returned true, and the
\* definition of a is the file's new contents.
C4_Witness ==
    /\ RetIs("exists", "a", TRUE, "reloaded")
    /\ function_get_definition(Cur, "a") = [res |-> TRUE, out |-> <<"a", files["a"]>>]
    /\ "a" \notin function_tombstones

\* C5: copy(old_name, new_name) returns true only if the insertion happened,
\* that is only if new_name had no record; it returns false when new_name
\* already has one.
C5_CopyTrueOnlyIfInserted == (ret.op = "copy" /\ ret.val) => ret.aux.fresh

\* C6: after copy(a, b), with a # b, a present and b absent, remove(a) leaves b
\* with the definition, named_arguments, inherit_vars and shadow_scope a had,
\* with is_autoload = false and no definition_file; a is gone, and b is neither
\* removed nor tombstoned by the removal.
C6_CopySurvivesRemoveOfOriginal ==
    [][(/\ ret.op = "copy" /\ ret.val /\ ret.aux.fresh /\ ret.name # ret.aux.new
        /\ ret'.op = "remove" /\ ret'.name = ret.name)
       => LET a == ret.name
              b == ret.aux.new
          IN /\ a \in DOMAIN loaded_functions
             /\ a \notin DOMAIN loaded_functions'
             /\ b \in DOMAIN loaded_functions'
             /\ loaded_functions'[b].definition = loaded_functions[a].definition
             /\ loaded_functions'[b].named_arguments =
                    loaded_functions[a].named_arguments
             /\ loaded_functions'[b].inherit_vars = loaded_functions[a].inherit_vars
             /\ loaded_functions'[b].shadow_scope = loaded_functions[a].shadow_scope
             /\ ~loaded_functions'[b].is_autoload
             /\ loaded_functions'[b].definition_file = NULL
             /\ (b \in function_tombstones') = (b \in function_tombstones)]_vars

\* remove(a) has erased and tombstoned the autoloaded original right after its
\* copy to b was made, and b has a record.
C6_Witness ==
    /\ ret.op = "remove" /\ ret.val /\ ret.aux # ""
    /\ ret.name \in function_tombstones
    /\ ret.aux \in DOMAIN loaded_functions
    /\ ret.aux \notin function_tombstones

C8_IsAutoloadedOfUnknownIsFalse ==
    /\ Running
    /\ (ret.op = "is_autoloaded" /\ ret.name \notin DOMAIN loaded_functions)
           => ~ret.val

\* C9: for a reserved keyword k, exists(k) returns false, starts no load and
\* leaves the table, the tombstones and the coordinator as they are, whether or
\* not k.fish is on the search path or k has a record; exists_no_autoload(k,
\* snap) returns false too.
C9_ReservedKeywordIsNoFunction ==
    [][/\ (ret'.op = "exists" /\ parser_keywords_is_reserved(ret'.name)
           /\ RetChanged)
          => /\ ~ret'.val
             /\ UNCHANGED <<loaded_functions, function_tombstones, event_handlers,
                            autoload_entries, last_path, is_autoload, loadStack>>
       /\ \A i \in 1..Len(loadStack') :
              ~parser_keywords_is_reserved(loadStack'[i].name)
                  \/ loadStack'[i].op = "set_desc"
       /\ (ret'.op = "exists_no_autoload"
           /\ parser_keywords_is_reserved(ret'.name))
          => ~ret'.val]_vars

\* exists("if") has returned false while if.fish is on the search path and the
\* table holds a record named "if".
C9_Witness ==
    /\ RetIs("exists", "if", FALSE, "")
    /\ "if" \in DOMAIN loaded_functions
    /\ autoload_locate("if", fish_function_path) # 0

\* C10: exists_no_autoload(name, snap) returns true iff name is not reserved and
\* either has a record or name.fish is in a directory of snap's search path; it
\* changes neither the table, the tombstones, the flag nor the coordinator,
\* sources nothing, and every accessor returns what it returned before.
C10_ExistsNoAutoloadIsPure ==
    [][(ret'.op = "exists_no_autoload" /\ RetChanged) =>
           LET n == ret'.name
               snap == ret'.aux
           IN /\ ret'.val =
                     (/\ ~parser_keywords_is_reserved(n)
                      /\ \/ n \in DOMAIN loaded_functions
                         \/ \E i \in 1..Len(snap) :
                                snap[i] = FunctionDir /\ files[n] # 0)
              /\ UNCHANGED <<loaded_functions, function_tombstones, event_handlers,
                             autoload_entries, last_path, is_autoload, loadStack>>
              /\ Accessors(Cur)' = Accessors(Cur)]_vars

\* exists_no_autoload("b", snap) has returned true for a name that has no record
\* and that the coordinator has not loaded.
C10_Witness ==
    /\ ret.op = "exists_no_autoload" /\ ret.name = "b" /\ ret.val
    /\ "b" \notin DOMAIN loaded_functions
    /\ "b" \notin DOMAIN autoload_entries

\* This step is a function_add, at top level or by a file being sourced.
AddStep == ret'.op = "add" /\ (RetChanged \/ loadStack' # loadStack)

\* C11: the record function_add inserts has is_autoload = true iff the add runs
\* while a load is sourcing a file; an add outside any load, also one after a
\* load has returned, inserts a record with is_autoload = false.
C11_AutoloadFlagIffAddedDuringLoad ==
    [][AddStep =>
           /\ ret'.name \in DOMAIN loaded_functions'
           /\ loaded_functions'[ret'.name].is_autoload = (loadStack # << >>)]_vars

\* An explicit add of "b" outside any load has inserted a record that is not
\* autoloaded, after a load that sourced a.fish has returned.
C11_Witness ==
    /\ ret.op = "add" /\ ret.name = "b" /\ ret.aux # "file"
    /\ loadStack = << >>
    /\ ~loaded_functions["b"].is_autoload
    /\ "a" \in DOMAIN loaded_functions /\ loaded_functions["a"].is_autoload
    /\ loaded_functions["a"].definition_file = FilePath("a")

\* C18: an explicit function_add of a name outside any load, while the table
\* holds an autoloaded record of the name, enters the name into the tombstones
\* (the old record goes through the tombstoning function_remove); from then on
\* no load sources name.fish, so once the explicit record is removed
\* function_exists(name) returns false although name.fish is on the search path.
C18_AddOverAutoloadedTombstones ==
    [][/\ (AddStep /\ loadStack = << >> /\ OverAutoloaded(ret'.name))
          => /\ ret'.name \in function_tombstones'
             /\ ~loaded_functions'[ret'.name].is_autoload
       /\ \A n \in function_tombstones :
              /\ ~SourcingStarts(n)
              /\ (ret'.op = "exists" /\ ret'.name = n /\ RetChanged)
                 => ret'.val = (n \in DOMAIN loaded_functions)]_vars

\* An explicit add of "a" has replaced the autoloaded record of "a" and left
\* "a" tombstoned, with a.fish on the search path.
C18_Witness ==
    /\ ret.op = "add" /\ ret.name = "a" /\ ret.val /\ ret.aux # "file"
    /\ "a" \in function_tombstones
    /\ ~loaded_functions["a"].is_autoload
    /\ autoload_locate("a", fish_function_path) # 0

\* C19: every load leaves is_autoload as it found it -- a load that sources a
\* file sets it and puts the saved value back when the sourcing returns, also
\* when the load is nested in another sourcing, and a load that returns early
\* does not change it -- so the flag is false whenever no load is in progress.
C19_FlagRestoredByLoad ==
    [][/\ Len(loadStack') > Len(loadStack) =>
              /\ is_autoload'
              /\ loadStack'[Len(loadStack')].was_autoload = is_autoload
       /\ Len(loadStack') < Len(loadStack) => is_autoload' = Top.was_autoload
       /\ Len(loadStack') = Len(loadStack) => is_autoload' = is_autoload
       /\ is_autoload' = (loadStack' # << >>)]_vars

\* A load nested in the sourcing of b.fish has sourced a.fish and returned: the
\* flag is true again for the rest of b.fish.
C19_Witness ==
    /\ Len(loadStack) = 1
    /\ RetIs("exists", "a", TRUE, "reloaded")
    /\ is_autoload

\* C20: the event bus holds handlers keyed on a function name only while the
\* table holds a record of that name: every removal of a record -- by
\* function_remove, by function_add replacing it, or through the
\* removed-callback -- removes the handlers keyed on the name, function_add
\* leaves exactly the handlers its request declares, and function_copy
\* registers none for the new name.
C20_HandlersFollowRecords ==
    [][/\ event_handlers' \subseteq DOMAIN loaded_functions'
       /\ \A n \in DOMAIN loaded_functions \ DOMAIN loaded_functions' :
              n \notin event_handlers'
       /\ AddStep =>
              (ret'.name \in event_handlers') =
                  (ret'.aux = "full" \/ (ret'.aux = "file" /\ Top.name = "a"))
       /\ (ret'.op = "copy" /\ RetChanged) => event_handlers' = event_handlers]_vars

\* The stale record of "a", whose definition in a.fish declares an event
\* handler, has been dropped through the removed-callback before a.fish is
\* sourced again, and its handlers are gone with it.
C20_Witness ==
    /\ RetIs("source", "a", files["a"], TRUE)
    /\ "a" \notin DOMAIN loaded_functions
    /\ "a" \notin event_handlers

(***************************************************************************)
(* The registry while the environment variables change.                    *)
(***************************************************************************)
\* An environment variable a function may inherit is set or unset.
SetEnv ==
    /\ TopLevel
    /\ \E x \in InheritNames : env_vars' = [env_vars EXCEPT ![x] = 1 - @]
    /\ UNCHANGED <<Registry, Coordinator, is_autoload, loadStack, ret, dirs, Aside,
                   files, fish_function_path>>

NextEnv ==
    \/ FunctionAdd
    \/ FunctionRemove
    \/ FunctionCopy
    \/ FunctionExists
    \/ FunctionSetDesc
    \/ SourceAdd
    \/ SourceExists
    \/ SourceReturn
    \/ TouchFile
    \/ SetEnv

SpecEnv == Init /\ [][NextEnv]_vars

\* This step is the operation `op` on the name n (the environment's own steps
\* leave `ret` as it is).
OpOn(op, n) == ret'.op = op /\ ret'.name = n /\ UNCHANGED Environment

\* This step is a function_add of n by the file n.fish, sourced by a load of n.
ReloadOf(n) == OpOn("add", n) /\ ret'.aux = "file" /\ Top.name = n

\* C12: the record an explicit function_add inserts has the request's
\* definition, named_arguments and shadow_scope and the snapshot of the
\* inherit_vars taken at the add; and as long as no add or remove of the name
\* follows, the four accessors keep returning them -- set_desc, copy, operations
\* on other names, exists of the name with a changed name.fish on the search
\* path (which sources nothing) and changes of the environment variables do not
\* alter them.
C12_RecordFieldsKept ==
    [][/\ \A c \in AddChoices :
              (OpOn("add", c[1]) /\ ret'.aux = c[2] /\ loadStack = << >>) =>
                  LET R == Data(c[1], c[2])
                  IN /\ function_get_definition(Cur, c[1])' =
                            [res |-> TRUE, out |-> R.definition]
                     /\ function_get_named_arguments(Cur, c[1])' = R.named_arguments
                     /\ function_get_inherit_vars(Cur, c[1])' =
                            snapshot_vars(R.inherit_vars)
                     /\ function_get_shadow_scope(Cur, c[1])' = R.shadow_scope
       /\ \A n \in Names :
              (/\ n \in DOMAIN loaded_functions
               /\ ~loaded_functions[n].is_autoload
               /\ ~(OpOn("add", n) /\ ~ReloadOf(n))
               /\ ~OpOn("remove", n))
              => /\ function_get_definition(Cur, n)' = function_get_definition(Cur, n)
                 /\ function_get_named_arguments(Cur, n)' =
                        function_get_named_arguments(Cur, n)
                 /\ function_get_inherit_vars(Cur, n)' =
                        function_get_inherit_vars(Cur, n)
                 /\ function_get_shadow_scope(Cur, n)' =
                        function_get_shadow_scope(Cur, n)]_vars

\* exists("a") has returned true for the explicit record of "a", which still
\* holds the snapshot v = 1 taken at the add although v has been unset since
\* and a.fish has been rewritten.
C12_Witness ==
    /\ RetIs("exists", "a", TRUE, "")
    /\ ~loaded_functions["a"].is_autoload
    /\ function_get_inherit_vars(Cur, "a") = [x \in {"v"} |-> 1]
    /\ env_get("v") = 0
    /\ files["a"] = 2

(***************************************************************************)
(* function_get_names.  The names are sequences of characters; the result, *)
(* a list built from an unordered_set, is a bag: it has no order.          *)
(***************************************************************************)
\* wcsrchr(fn, ch): the position of the last ch in fn, 0 when there is none.
wcsrchr(fn, ch) ==
    LET at == {i \in 1..Len(fn) : fn[i] = ch}
    IN IF at = {} THEN 0 ELSE CHOOSE i \in at : \A j \in at : j <= i

\* std::unordered_set::insert(name).
names_insert(names, name) ==
    IF BagIn(name, names) THEN names ELSE names (+) SetToBag({name})

\* The body of the wreaddir loop for the entry fn (lines 96-104).
autoload_names_entry(names, fn, get_hidden) ==
    IF ~get_hidden /\ fn # << >> /\ fn[1] = "_" THEN names
    ELSE LET suffix == wcsrchr(fn, ".")
         IN IF suffix # 0 /\ SubSeq(fn, suffix, Len(fn)) = FishSuffix
            THEN names_insert(names, SubSeq(fn, 1, suffix - 1))
            ELSE names

\* The wreaddir loop over the entries of one directory (lines 95-105).
RECURSIVE autoload_names_dir(_, _, _)
autoload_names_dir(names, entries, get_hidden) ==
    IF entries = {} THEN names
    ELSE LET fn == CHOOSE e \in entries : TRUE
         IN autoload_names_dir(autoload_names_entry(names, fn, get_hidden),
                               entries \ {fn}, get_hidden)

\* The loop over path_list from position i on (lines 88-107); wopendir fails
\* for a directory that is not in dirs.
RECURSIVE autoload_names_from(_, _, _, _)
autoload_names_from(names, path_list, i, get_hidden) ==
    IF i > Len(path_list) THEN names
    ELSE IF path_list[i] \notin DOMAIN dirs
         THEN autoload_names_from(names, path_list, i + 1, get_hidden)
         ELSE autoload_names_from(
                  autoload_names_dir(names, dirs[path_list[i]], get_hidden),
                  path_list, i + 1, get_hidden)

\* Mutant: the hidden files are listed whatever get_hidden is.
autoload_names_all(names, get_hidden) ==
    autoload_names_from(names, fish_function_path, 1, TRUE)

\* autoload_names(names, get_hidden).
autoload_names(names, get_hidden) ==
    IF fish_function_path = << >> THEN names
    ELSE autoload_names_from(names, fish_function_path, 1, get_hidden)

\* The loop over loaded_functions (lines 290-298).
RECURSIVE function_get_names_loaded(_, _, _, _)
function_get_names_loaded(names, st, pending, get_hidden) ==
    IF pending = {} THEN names
    ELSE LET name == CHOOSE n \in pending : TRUE
             skip == ~get_hidden /\ (name = "" \/ NameChars(name)[1] = "_")
         IN function_get_names_loaded(
                IF skip THEN names ELSE names_insert(names, NameChars(name)),
                st, pending \ {name}, get_hidden)

\* function_get_names(get_hidden).
function_get_names(st, get_hidden) ==
    function_get_names_loaded(autoload_names(EmptyBag, get_hidden), st,
                              DOMAIN st.loaded, get_hidden)

\* The file name of the function file of the name with these characters.
FishFile(chars) == chars \o FishSuffix

\* Entries of the first directory: three function files (one hidden, one with a
\* dot in its name), a file that is no function file, and the file ".fish".
EntryChoices ==
    {FishFile(<<"a">>), FishFile(<<"_", "h">>), FishFile(<<"c", ".", "d">>),
     <<"n", ".", "t", "x", "t">>, FishSuffix}

\* The file systems: "d1" lists any of the entries; "d2" cannot be opened, or
\* lists a.fish and b.fish.
DirChoices ==
    {[d \in {"d1"} |-> e] : e \in SUBSET EntryChoices}
    \cup {[d \in {"d1", "d2"} |->
              IF d = "d1" THEN e ELSE {FishFile(<<"a">>), FishFile(<<"b">>)}] :
          e \in SUBSET EntryChoices}

\* The search paths and the names with a record (one of them hidden).
NamePathChoices == {<< >>, <<"d1">>, <<"d2", "d1">>, <<"d1", "d2", "d1">>}
LoadedChoices == SUBSET {"a", "b", "_k"}

\* The record of an explicitly defined function.
ExplicitRecord ==
    [definition |-> <<"cmd", 1>>, description |-> "", definition_file |-> NULL,
     definition_offset |-> 0, named_arguments |-> << >>, inherit_vars |-> << >>,
     is_autoload |-> FALSE, shadow_scope |-> TRUE]

InitNames ==
    /\ loaded_functions \in {[n \in s |-> ExplicitRecord] : s \in LoadedChoices}
    /\ function_tombstones = {}
    /\ is_autoload = FALSE
    /\ event_handlers = {}
    /\ autoload_entries = << >>
    /\ last_path = << >>
    /\ files = [n \in Names |-> 0]
    /\ fish_function_path \in NamePathChoices
    /\ env_vars = [x \in InheritNames |-> 1]
    /\ loadStack = << >>
    /\ ret = Ret("init", "", FALSE, "")
    /\ dirs \in DirChoices
    /\ local_vars = << >>
    /\ functions_lock = Unlocked
    /\ threads = [t \in Threads |-> Idle]

FunctionGetNames ==
    /\ TopLevel
    /\ \E get_hidden \in BOOLEAN :
           ret' = Ret("get_names", "", get_hidden, function_get_names(Cur, get_hidden))
    /\ UNCHANGED <<Registry, Coordinator, is_autoload, loadStack, Environment, Aside>>

NextNames == FunctionGetNames

SpecNames == InitNames /\ [][NextNames]_vars

\* The base names of the *.fish files in the directories of the search path
\* that can be opened.
FunctionFileNames ==
    {SubSeq(e, 1, Len(e) - Len(FishSuffix)) :
        e \in {x \in UNION {dirs[fish_function_path[i]] :
                              i \in {j \in 1..Len(fish_function_path) :
                                        fish_function_path[j] \in DOMAIN dirs}} :
                 /\ Len(x) >= Len(FishSuffix)
                 /\ SubSeq(x, Len(x) - Len(FishSuffix) + 1, Len(x)) = FishSuffix}}

\* C15: function_get_names(false) returns no name that starts with '_', from
\* the table or from a file; function_get_names(true) returns exactly the names
\* in the table and the base names of the *.fish files in the search-path
\* directories that can be opened; no name is returned twice, and a directory
\* that cannot be opened is skipped.
C15_GetNames ==
    ret.op = "get_names" =>
        LET out == ret.aux
        IN /\ \A x \in BagToSet(out) : CopiesIn(x, out) = 1
           /\ ~ret.val => \A x \in BagToSet(out) : x = << >> \/ x[1] # "_"
           /\ ret.val =>
                  BagToSet(out) =
                      {NameChars(n) : n \in DOMAIN loaded_functions}
                      \cup FunctionFileNames

\* function_get_names(false) has returned while the first directory of the
\* search path cannot be opened, the second holds a.fish and the hidden
\* _h.fish, and the table holds a and the hidden _k.
C15_Witness ==
    /\ ret.op = "get_names" /\ ~ret.val
    /\ fish_function_path = <<"d2", "d1">>
    /\ "d2" \notin DOMAIN dirs
    /\ {FishFile(<<"a">>), FishFile(<<"_", "h">>)} \subseteq dirs["d1"]
    /\ {"a", "_k"} \subseteq DOMAIN loaded_functions
    /\ BagToSet(ret.aux) = {<<"a">>}

(***************************************************************************)
(* function_prepare_environment.  The environment store is external: a     *)
(* variable of the local scope maps to its list of values.                 *)
(***************************************************************************)
\* env_set(key, ENV_LOCAL | ENV_USER, list); env_set_one and env_set_empty set
\* a one-element and an empty list; env_set_argv sets the variable argv.
env_set(scope, key, list) ==
    [x \in DOMAIN scope \cup {key} |-> IF x = key THEN list ELSE scope[x]]
env_set_one(scope, key, val) == env_set(scope, key, <<val>>)
env_set_empty(scope, key) == env_set(scope, key, << >>)
env_set_argv(scope, argv) == env_set(scope, "argv", argv)

\* The loop over named_arguments from position i on, with `arg` the position
\* of the next element of argv (lines 331-338); *arg is null past the end.
RECURSIVE bind_named_arguments(_, _, _, _, _)
bind_named_arguments(scope, named_arguments, i, argv, arg) ==
    IF i > Len(named_arguments) THEN scope
    ELSE IF arg <= Len(argv)
         THEN bind_named_arguments(
                  env_set_one(scope, named_arguments[i], argv[arg]),
                  named_arguments, i + 1, argv, arg + 1)
         ELSE bind_named_arguments(
                  env_set_empty(scope, named_arguments[i]),
                  named_arguments, i + 1, argv, arg)

\* The loop over inherited_vars (lines 341-343).
RECURSIVE set_inherited_vars(_, _, _)
set_inherited_vars(scope, inherited_vars, pending) ==
    IF pending = {} THEN scope
    ELSE LET key == CHOOSE k \in pending : TRUE
         IN set_inherited_vars(env_set(scope, key, inherited_vars[key]),
                               inherited_vars, pending \ {key})

\* Mutant: the inherited variables are set before the named arguments.
function_prepare_environment_inherited_first(st, scope, name, argv, inherited_vars) ==
    bind_named_arguments(
        set_inherited_vars(env_set_argv(scope, argv), inherited_vars,
                           DOMAIN inherited_vars),
        function_get_named_arguments(st, name), 1, argv, 1)

\* function_prepare_environment(name, argv, inherited_vars): the local scope
\* after the call.
function_prepare_environment(st, scope, name, argv, inherited_vars) ==
    set_inherited_vars(
        bind_named_arguments(env_set_argv(scope, argv),
                             function_get_named_arguments(st, name), 1, argv, 1),
        inherited_vars, DOMAIN inherited_vars)

\* The named arguments of the function "a", the argument lists and the
\* inherited-variable snapshots of the calls.
NamedChoices == {<< >>, <<"x">>, <<"x", "y">>, <<"v", "x">>, <<"x", "x">>}
ArgvChoices == {<< >>, <<"1">>, <<"1", "2">>, <<"1", "2", "3">>}
InheritedChoices ==
    {<< >>, [k \in {"v"} |-> <<"9">>], [k \in {"v", "x"} |-> <<"8", "9">>]}

InitPrepare ==
    /\ loaded_functions \in
           {[n \in {"a"} |-> [ExplicitRecord EXCEPT !.named_arguments = na]] :
                na \in NamedChoices}
    /\ function_tombstones = {}
    /\ is_autoload = FALSE
    /\ event_handlers = {}
    /\ autoload_entries = << >>
    /\ last_path = << >>
    /\ files = [n \in Names |-> 0]
    /\ fish_function_path = << >>
    /\ env_vars = [x \in InheritNames |-> 1]
    /\ loadStack = << >>
    /\ ret = Ret("init", "", FALSE, "")
    /\ dirs = DirListing(files)
    /\ local_vars = << >>
    /\ functions_lock = Unlocked
    /\ threads = [t \in Threads |-> Idle]

\* The caller has pushed a new local scope; the call fills it.
FunctionPrepareEnvironment ==
    /\ TopLevel
    /\ \E name \in Plain, argv \in ArgvChoices, inherited_vars \in InheritedChoices :
           /\ local_vars' = function_prepare_environment(Cur, << >>, name, argv,
                                                         inherited_vars)
           /\ ret' = Ret("prepare_environment", name, argv, inherited_vars)
    /\ UNCHANGED <<Registry, Coordinator, is_autoload, loadStack, Environment,
                   functions_lock, threads>>

NextPrepare == FunctionPrepareEnvironment

SpecPrepare == InitPrepare /\ [][NextPrepare]_vars

\* The last position of the variable x among the named arguments, 0 if none.
LastNamed(named_arguments, x) ==
    LET at == {i \in 1..Len(named_arguments) : named_arguments[i] = x}
    IN IF at = {} THEN 0 ELSE CHOOSE i \in at : \A j \in at : j <= i

\* C16: after function_prepare_environment(name, argv, inherited) the local
\* scope holds argv, every named argument of name -- the i-th bound to the i-th
\* element of argv when there is one and to the empty list otherwise, surplus
\* elements binding nothing -- and every inherited variable, which is set last
\* and so is the final binding of a variable that is also a named argument; the
\* table and the tombstones are unchanged.
C16_PrepareEnvironment ==
    [][ret'.op = "prepare_environment" =>
           LET argv == ret'.val
               inherited == ret'.aux
               named == function_get_named_arguments(Cur, ret'.name)
           IN /\ DOMAIN local_vars' =
                     {"argv"} \cup {named[i] : i \in 1..Len(named)}
                     \cup DOMAIN inherited
              /\ \A x \in DOMAIN local_vars' :
                     local_vars'[x] =
                         IF x \in DOMAIN inherited THEN inherited[x]
                         ELSE IF LastNamed(named, x) = 0 THEN argv
                         ELSE IF LastNamed(named, x) <= Len(argv)
                              THEN <<argv[LastNamed(named, x)]>>
                              ELSE << >>
              /\ UNCHANGED <<loaded_functions, function_tombstones>>]_vars

\* The function has the named arguments v and x, argv has one element and v is
\* inherited: v holds the inherited value, x the empty list.
C16_Witness ==
    /\ ret.op = "prepare_environment" /\ ret.name = "a"
    /\ loaded_functions["a"].named_arguments = <<"v", "x">>
    /\ ret.val = <<"1">>
    /\ ret.aux = [k \in {"v"} |-> <<"9">>]
    /\ local_vars = [k \in {"argv", "v", "x"} |->
                        IF k = "argv" THEN <<"1">>
                        ELSE IF k = "v" THEN <<"9">> ELSE << >>]

(***************************************************************************)
(* The registry called from two threads.  An operation is a sequence of    *)
(* steps; a thread's record holds the operation it is in, its position,    *)
(* and what it has read.  The loads of the main thread are followed in     *)
(* Spec; here the operations that load are called from the other thread.   *)
(***************************************************************************)
\* Mutant: the mutex admits any thread.
can_lock_any(t) == TRUE

\* Mutant: the mutex is not recursive.
can_lock_non_recursive(t) == functions_lock.owner = "none"

\* std::recursive_mutex: the thread t can lock it when it is free or its own.
can_lock(t) == functions_lock.owner \in {"none", t}

\* The mutex once t has locked it, and once its owner has unlocked it.
lock(t) == [owner |-> t, count |-> functions_lock.count + 1]
unlock ==
    IF functions_lock.count <= 1 THEN Unlocked
    ELSE [functions_lock EXCEPT !.count = @ - 1]

\* How many times t holds the mutex.
HeldBy(t) == IF functions_lock.owner = t THEN functions_lock.count ELSE 0

\* The operations called, and the ones that call load().
ThreadOps == {"add", "remove", "copy", "get_definition", "exists", "set_desc"}
LoadingOps == {"exists", "set_desc"}

\* The first position of each operation.
Entry(op) ==
    CASE op = "add" -> "add_assert"
      [] op = "remove" -> "rm_lock"
      [] op = "copy" -> "cp_lock"
      [] op = "get_definition" -> "gd_lock"
      [] op = "exists" -> "ex_lock"
      [] op = "set_desc" -> "load_assert"

\* Where function_remove returns to: into function_add, or to the caller.
Return(t) == IF threads[t].op = "add" THEN "add_insert" ELSE "idle"

\* The thread t moves to the position pc.
Goto(t, pc) == threads' = [threads EXCEPT ![t].pc = pc]

\* The registry states the threads start from: empty, "a" autoloaded from
\* a.fish, "a" defined explicitly.
Empty ==
    [loaded |-> << >>, tombstones |-> {}, handlers |-> {}, entries |-> << >>,
     last_path |-> << >>]
Autoloaded_a ==
    [Empty EXCEPT
        !.loaded = [n \in {"a"} |->
                       function_info_t(FileData("a", 1, "a"), FilePath("a"), 0, TRUE)],
        !.handlers = {"a"},
        !.entries = [n \in {"a"} |-> [mtime |-> 1, is_loaded |-> TRUE]],
        !.last_path = <<"d1">>]
Explicit_a ==
    [Empty EXCEPT
        !.loaded = [n \in {"a"} |->
                       function_info_t(Data("a", "plain"), NULL, 0, FALSE)]]

InitThreads ==
    /\ is_autoload = FALSE
    /\ files = [n \in Names |-> 1]
    /\ fish_function_path = <<"d1">>
    /\ env_vars = [x \in InheritNames |-> 1]
    /\ loadStack = << >>
    /\ ret = Ret("init", "", FALSE, "")
    /\ dirs = DirListing(files)
    /\ local_vars = << >>
    /\ functions_lock = Unlocked
    /\ threads = [t \in Threads |-> Idle]
    /\ \E st \in {Empty, Autoloaded_a, Explicit_a} :
           /\ loaded_functions = st.loaded
           /\ function_tombstones = st.tombstones
           /\ event_handlers = st.handlers
           /\ autoload_entries = st.entries
           /\ last_path = st.last_path
\* What the steps of the threads leave alone.
Untouched == <<is_autoload, loadStack, ret, Environment, local_vars>>

\* A thread calls an operation on the function "a" (function_copy copies it to
\* "b").
ThreadCall(t) ==
    /\ threads[t].pc = "idle"
    /\ \E op \in ThreadOps, kind \in {"plain", "full"} :
           /\ op \in LoadingOps => t # "main"
           /\ threads' = [threads EXCEPT ![t] =
                  [pc |-> Entry(op), op |-> op, name |-> "a",
                   arg |-> IF op = "add" THEN kind
                           ELSE IF op = "copy" THEN "b" ELSE "",
                   seen |-> NULL, res |-> FALSE, depth |-> HeldBy(t)]]
    /\ UNCHANGED <<Registry, Coordinator, functions_lock, Untouched>>

\* ASSERT_IS_MAIN_THREAD() at the entry of function_add and of load: a thread
\* other than the main one does not get past it.
AssertIsMainThread(t) ==
    /\ \/ threads[t].pc = "add_assert"
       \/ threads[t].pc = "load_assert" /\ t # "main"
    /\ Goto(t, IF t = "main" THEN "add_lock" ELSE "assert_failed")
    /\ UNCHANGED <<Registry, Coordinator, functions_lock, Untouched>>

\* scoped_rlock locker(functions_lock): the constructor.
AfterLock(pc) ==
    CASE pc = "add_lock" -> "add_remove"
      [] pc = "rm_lock" -> "rm_erase"
      [] pc = "cb_lock" -> "cb_erase"
      [] pc = "cp_lock" -> "cp_copy"
      [] pc = "gd_lock" -> "gd_read"
      [] pc = "ex_lock" -> "load_assert"

ScopedLock(t) ==
    /\ threads[t].pc \in {"add_lock", "rm_lock", "cb_lock", "cp_lock", "gd_lock",
                          "ex_lock"}
    /\ can_lock(t)
    /\ functions_lock' = lock(t)
    /\ Goto(t, AfterLock(threads[t].pc))
    /\ UNCHANGED <<Registry, Coordinator, Untouched>>

\* The destructor of the scoped_rlock, as the function returns.
\* function_remove goes on to the coordinator's unload when the record was
\* erased.
ScopedUnlock(t) ==
    /\ threads[t].pc \in {"add_unlock", "rm_unlock", "cb_unlock", "cp_unlock",
                          "gd_unlock"}
    /\ functions_lock' = unlock
    /\ Goto(t, CASE threads[t].pc = "rm_unlock" ->
                        IF threads[t].res THEN "unload" ELSE Return(t)
                 [] threads[t].pc = "cb_unlock" -> Return(t)
                 [] OTHER -> "idle")
    /\ UNCHANGED <<Registry, Coordinator, Untouched>>

\* function_add calls function_remove(data.name), holding the mutex.
RemoveInAdd(t) ==
    /\ threads[t].pc = "add_remove"
    /\ threads' = [threads EXCEPT ![t].pc = "rm_lock", ![t].depth = HeldBy(t)]
    /\ UNCHANGED <<Registry, Coordinator, functions_lock, Untouched>>

\* function_remove_ignore_autoload(name, true) under its lock.
RemoveIgnoreAutoload(t) ==
    /\ threads[t].pc = "rm_erase"
    /\ LET r == function_remove_ignore_autoload(Cur, threads[t].name, TRUE)
       IN /\ Put(r.st)
          /\ threads' = [threads EXCEPT ![t].pc = "rm_unlock", ![t].res = r.res]
    /\ UNCHANGED <<functions_lock, Untouched>>

\* function_autoloader.unload(name): the coordinator drops its entry and calls
\* back for a loaded one.
AutoloadUnload(t) ==
    /\ threads[t].pc = "unload"
    /\ LET name == threads[t].name
       IN IF name \in DOMAIN autoload_entries
          THEN /\ autoload_entries' = MapErase(autoload_entries, name)
               /\ Goto(t, IF autoload_entries[name].is_loaded
                          THEN "cb_lock" ELSE Return(t))
          ELSE /\ UNCHANGED autoload_entries
               /\ Goto(t, Return(t))
    /\ UNCHANGED <<Registry, last_path, functions_lock, Untouched>>

\* autoloaded_function_removed(name): function_remove_ignore_autoload(name,
\* false) under its lock.
RemovedCallback(t) ==
    /\ threads[t].pc = "cb_erase"
    /\ Put(autoloaded_function_removed(Cur, threads[t].name))
    /\ Goto(t, "cb_unlock")
    /\ UNCHANGED <<functions_lock, Untouched>>

\* function_add after the removal: the record is inserted and the event
\* handlers are added.
AddInsert(t) ==
    /\ threads[t].pc = "add_insert"
    /\ LET data == Data(threads[t].name, threads[t].arg)
           info == function_info_t(data, reader_current_filename,
                                   DataOffset(threads[t].arg), is_autoload)
       IN /\ loaded_functions' = MapInsert(loaded_functions, data.name, info)
          /\ event_handlers' =
                 IF data.events THEN event_handlers \cup {data.name}
                 ELSE event_handlers
    /\ Goto(t, "add_unlock")
    /\ UNCHANGED <<function_tombstones, Coordinator, functions_lock, Untouched>>

\* function_copy(name, new_name) under its lock.
CopyInsert(t) ==
    /\ threads[t].pc = "cp_copy"
    /\ LET r == function_copy(Cur, threads[t].name, threads[t].arg)
       IN /\ Put(r.st)
          /\ threads' = [threads EXCEPT ![t].pc = "cp_unlock", ![t].res = r.res]
    /\ UNCHANGED <<functions_lock, Untouched>>

\* function_get_definition(name, out) under its lock: the thread notes what it
\* found.
GetDefinitionRead(t) ==
    /\ threads[t].pc = "gd_read"
    /\ LET r == function_get_definition(Cur, threads[t].name)
       IN threads' = [threads EXCEPT ![t].pc = "gd_unlock", ![t].res = r.res,
                                     ![t].seen = r.out]
    /\ UNCHANGED <<Registry, Coordinator, functions_lock, Untouched>>

\* A step inside an operation of the thread t.
Continue(t) ==
    \/ AssertIsMainThread(t)
    \/ ScopedLock(t)
    \/ ScopedUnlock(t)
    \/ RemoveInAdd(t)
    \/ RemoveIgnoreAutoload(t)
    \/ AutoloadUnload(t)
    \/ RemovedCallback(t)
    \/ AddInsert(t)
    \/ CopyInsert(t)
    \/ GetDefinitionRead(t)

NextThreads ==
    \E t \in Threads :
        \/ ThreadCall(t)
        \/ AssertIsMainThread(t)
        \/ ScopedLock(t)
        \/ ScopedUnlock(t)
        \/ RemoveInAdd(t)
        \/ RemoveIgnoreAutoload(t)
        \/ AutoloadUnload(t)
        \/ RemovedCallback(t)
        \/ AddInsert(t)
        \/ CopyInsert(t)
        \/ GetDefinitionRead(t)

SpecThreads == InitThreads /\ [][NextThreads]_vars

\* A thread inside an operation goes on when it can.
SpecThreadsFair == SpecThreads /\ \A t \in Threads : WF_vars(Continue(t))


\* C13: add, remove, set_description, copy and the operations that load assert
\* the main thread at their entry: no step of the other thread changes the
\* table or the tombstones.
C13_OtherThreadChangesNothing ==
    [][threads'["other"] # threads["other"] =>
           UNCHANGED <<loaded_functions, function_tombstones>>]_vars

\* The positions from which the next step reads or writes the table or the
\* tombstones, and the positions of function_add from its call of
\* function_remove to its insertion.
TablePcs == {"rm_erase", "cb_erase", "add_insert", "cp_copy", "gd_read"}
AddSequence ==
    {"add_remove", "rm_lock", "rm_erase", "rm_unlock", "unload", "cb_lock",
     "cb_erase", "cb_unlock", "add_insert"}

\* C14: a thread about to read or write the table or the tombstones holds the
\* mutex; function_add holds it from before its removal until after its
\* insertion; and a thread that has just looked the name up with
\* function_get_definition and found no record did not do so while another
\* thread's function_add of that name was between removal and insertion.
C14_MonitorHeld ==
    /\ \A t \in Threads :
           threads[t].pc \in TablePcs => functions_lock.owner = t
    /\ \A t \in Threads :
           (threads[t].op = "add" /\ threads[t].pc \in AddSequence \cup {"add_unlock"})
               => functions_lock.owner = t
    /\ \A t \in Threads : \A u \in Threads \ {t} :
           (threads[t].pc = "gd_unlock" /\ ~threads[t].res)
               => ~(/\ threads[u].op = "add"
                    /\ threads[u].name = threads[t].name
                    /\ threads[u].pc \in AddSequence)

\* The main thread's function_add has erased the record of "a" and not yet
\* inserted the new one, while the other thread waits for the mutex to look
\* "a" up.
C14_Witness ==
    /\ threads["main"].op = "add" /\ threads["main"].pc = "add_insert"
    /\ threads["main"].res
    /\ "a" \notin DOMAIN loaded_functions
    /\ threads["other"].op = "get_definition" /\ threads["other"].pc = "gd_lock"
    /\ functions_lock.owner = "main"

\* C17: a thread that enters function_remove holding the mutex gets through it:
\* the lock in function_remove_ignore_autoload, the coordinator's unload, and
\* the lock of the callback's function_remove_ignore_autoload(name, false) are
\* all taken, the callback finds no record and changes nothing, and
\* function_add goes on holding the mutex as many times as before the call.
C17_ReentrantRemoveCompletes ==
    /\ [][\A t \in Threads :
              /\ (/\ threads[t].pc = "cb_erase" /\ threads'[t].pc # "cb_erase"
                  /\ threads[t].depth > 0)
                     => /\ threads[t].name \notin DOMAIN loaded_functions
                        /\ UNCHANGED <<Registry, Coordinator>>
              /\ (threads[t].pc # "add_insert" /\ threads'[t].pc = "add_insert")
                     => /\ functions_lock'.owner = t
                        /\ functions_lock'.count = threads[t].depth]_vars
    /\ \A t \in Threads :
           (threads[t].pc = "rm_lock" /\ HeldBy(t) > 0)
               ~> (threads[t].pc = "add_insert")

\* Inside function_add over the autoloaded "a", the main thread is in the
\* callback, holding the mutex twice, and the record is already erased.
C17_Witness ==
    /\ threads["main"].op = "add" /\ threads["main"].pc = "cb_erase"
    /\ functions_lock = [owner |-> "main", count |-> 2]
    /\ "a" \notin DOMAIN loaded_functions

=============================================================================
